---------------------------- MODULE Spec2Model ----------------------------
(***************************************************************************)
(* A model of the WCM revenue agent: the text-to-SQL pipeline of           *)
(* wcm_agent/agent.py (ask_database) and the pure functions it calls,      *)
(* wcm_agent/safety.py (validate_sql, sanitize_input, enforce_limit) and   *)
(* wcm_agent/formatters.py (format_result_deterministic).                  *)
(*                                                                         *)
(* Text is modelled character by character: a Python str is a sequence of  *)
(* one-character strings, so that prefixes, word boundaries, comment       *)
(* stripping and trimming are computed the way the code computes them.     *)
(* Non-printable characters are written by name ("NUL", "BEL", "VT", "FF", *)
(* "ESC", "DEL"), and so is the backquote ("BQ"); "\n", "\t" and "\r" are  *)
(* themselves.                                                             *)
(***************************************************************************)
EXTENDS Integers, Sequences, FiniteSets, TLC

VARIABLES
    pc,                   \* where ask_database is: "Start" .. "Done", or "Raised"
    asked,                \* the question the caller passed
    question,             \* the local variable question (rebound to the sanitized text)
    api_key,              \* os.getenv("OPENAI_API_KEY")
    max_retries,          \* the caller's argument (after the None default)
    attempt,              \* the loop variable of the generation loop
    last_error,           \* str(last_error)
    generated_sql,        \* None, the raw completion, then the cleaned and limited query
    candidate,            \* the fence-stripped candidate handed to validate_sql
    is_safe, reason,      \* validate_sql's verdict on the candidate
    columns, rows,        \* cursor.description names and cursor.fetchall()
    result_data,          \* [dict(zip(columns, row)) for row in rows]
    deterministic_answer, \* format_result_deterministic(question, result_data)
    answer,               \* the returned string (when pc = "Done")
    trace,                \* the external calls made so far, in order
    sleeps,               \* the arguments of time.sleep, in order
    vpc, sql_in, verdict, \* a direct call of validate_sql: position, argument, result
    lpc, limit_sql, limit_rows, \* direct calls of enforce_limit: position, arguments
    limited, relimited,   \* enforce_limit's result, and its result on that result
    spc, text_in, sanitized, \* a direct call of sanitize_input: position, argument, result
    fpc, data_in, formatted \* a direct call of format_result_deterministic: the same

vars == <<pc, asked, question, api_key, max_retries, attempt, last_error, generated_sql,
          candidate, is_safe, reason, columns, rows, result_data,
          deterministic_answer, answer, trace, sleeps, vpc, sql_in, verdict,
          lpc, limit_sql, limit_rows, limited, relimited, spc, text_in, sanitized,
          fpc, data_in, formatted>>

agentVars == <<pc, asked, question, api_key, max_retries, attempt, last_error, generated_sql,
               candidate, is_safe, reason, columns, rows, result_data,
               deterministic_answer, answer, trace, sleeps>>

validateVars == <<vpc, sql_in, verdict>>

limitVars == <<lpc, limit_sql, limit_rows, limited, relimited>>

sanitizeVars == <<spc, text_in, sanitized>>

formatVars == <<fpc, data_in, formatted>>

\* The variables of the direct calls of the pure functions.
pureVars == <<validateVars, limitVars, sanitizeVars, formatVars>>

(***************************************************************************)
(* Characters and strings                                                  *)
(***************************************************************************)

\* Python's None where a str may stand: a sequence no text equals.
None == <<"<None>">>

LowerToUpper ==
    [a |-> "A", b |-> "B", c |-> "C", d |-> "D", e |-> "E", f |-> "F", g |-> "G",
     h |-> "H", i |-> "I", j |-> "J", k |-> "K", l |-> "L", m |-> "M", n |-> "N",
     o |-> "O", p |-> "P", q |-> "Q", r |-> "R", s |-> "S", t |-> "T", u |-> "U",
     v |-> "V", w |-> "W", x |-> "X", y |-> "Y", z |-> "Z"]

UpperLetters ==
    {"A","B","C","D","E","F","G","H","I","J","K","L","M",
     "N","O","P","Q","R","S","T","U","V","W","X","Y","Z"}

DigitChars == <<"0","1","2","3","4","5","6","7","8","9">>

\* str.upper() on one character.
UpperChar(c) == IF c \in DOMAIN LowerToUpper THEN LowerToUpper[c] ELSE c

\* str.upper()
Upper(s) == [i \in 1..Len(s) |-> UpperChar(s[i])]

\* The regular expression class \w (what \b is defined by).
IsWordChar(c) ==
    \/ c \in UpperLetters
    \/ c \in DOMAIN LowerToUpper
    \/ c \in {DigitChars[i] : i \in 1..10}
    \/ c = "_"

\* Whitespace as str.strip() and the class \s see it.
IsSpace(c) == c \in {" ", "\t", "\n", "\r", "VT", "FF"}

\* s[i:] with i counted from 1.
From(s, i) == SubSeq(s, i, Len(s))

\* s.startswith(p) at position i (i = 1 is str.startswith).
StartsAt(s, i, p) ==
    /\ i + Len(p) - 1 <= Len(s)
    /\ \A j \in 1..Len(p) : s[i + j - 1] = p[j]

StartsWith(s, p) == StartsAt(s, 1, p)

EndsWith(s, p) == Len(p) <= Len(s) /\ StartsAt(s, Len(s) - Len(p) + 1, p)

\* The least index >= i where p occurs in s, or 0.
RECURSIVE Find(_, _, _)
Find(s, i, p) ==
    IF i + Len(p) - 1 > Len(s) THEN 0
    ELSE IF StartsAt(s, i, p) THEN i
    ELSE Find(s, i + 1, p)

\* The greatest index <= i where p occurs in s, or 0 (str.rsplit's search).
RECURSIVE RFind(_, _, _)
RFind(s, i, p) ==
    IF i < 1 THEN 0
    ELSE IF StartsAt(s, i, p) THEN i
    ELSE RFind(s, i - 1, p)

\* str.lstrip(), str.rstrip(), str.strip()
RECURSIVE LStrip(_)
LStrip(s) == IF s # <<>> /\ IsSpace(Head(s)) THEN LStrip(Tail(s)) ELSE s

RECURSIVE RStrip(_)
RStrip(s) ==
    IF s # <<>> /\ IsSpace(s[Len(s)]) THEN RStrip(SubSeq(s, 1, Len(s) - 1)) ELSE s

Strip(s) == RStrip(LStrip(s))

\* Only one trailing semicolon goes (str.removesuffix(";")).
RStripSemicolons_once(s) ==
    IF s # <<>> /\ s[Len(s)] = ";" THEN SubSeq(s, 1, Len(s) - 1) ELSE s

\* str.rstrip(";"): every trailing semicolon goes.
RECURSIVE RStripSemicolons(_)
RStripSemicolons(s) ==
    IF s # <<>> /\ s[Len(s)] = ";"
    THEN RStripSemicolons(SubSeq(s, 1, Len(s) - 1))
    ELSE s

\* str(n) of an integer.
RECURSIVE NatStr(_)
NatStr(n) == IF n < 10 THEN <<DigitChars[n + 1]>>
             ELSE NatStr(n \div 10) \o <<DigitChars[(n % 10) + 1]>>

IntStr(n) == IF n < 0 THEN <<"-">> \o NatStr(0 - n) ELSE NatStr(n)

\* re.search(rf"\b{word}\b", s, re.IGNORECASE): word occurs in s, in any
\* letter case, with no word character directly before or after it.
HasWord(s, word) ==
    LET upper == Upper(s) IN
    \E i \in 1..Len(s) :
        /\ StartsAt(upper, i, word)
        /\ (i = 1 \/ ~IsWordChar(s[i - 1]))
        /\ (i + Len(word) > Len(s) \/ ~IsWordChar(s[i + Len(word)]))

(***************************************************************************)
(* wcm_agent/safety.py                                                     *)
(***************************************************************************)

MSG_ONLY_SELECT == <<"B","l","o","c","k","e","d",":"," ","O","n","l","y"," ","S","E","L","E","C","T"," ","q","u","e","r","i","e","s"," ","a","r","e"," ","a","l","l","o","w","e","d",".">>

MSG_MULTIPLE == <<"B","l","o","c","k","e","d",":"," ","M","u","l","t","i","p","l","e"," ","S","Q","L"," ","s","t","a","t","e","m","e","n","t","s"," ","a","r","e"," ","n","o","t"," ","a","l","l","o","w","e","d",".">>

MSG_OK == <<"O","K">>

\* f"Blocked: SQL contains '{keyword}' which is not allowed."
MsgContains(keyword) ==
    <<"B","l","o","c","k","e","d",":"," ","S","Q","L"," ","c","o","n","t","a","i","n","s"," ","'">>
    \o keyword \o
    <<"'"," ","w","h","i","c","h"," ","i","s"," ","n","o","t"," ","a","l","l","o","w","e","d",".">>

SELECT == <<"S","E","L","E","C","T">>

LIMIT == <<"L","I","M","I","T">>

blocked_keywords ==
    << <<"D","R","O","P">>, <<"D","E","L","E","T","E">>, <<"I","N","S","E","R","T">>,
       <<"U","P","D","A","T","E">>, <<"A","L","T","E","R">>, <<"C","R","E","A","T","E">>,
       <<"T","R","U","N","C","A","T","E">>, <<"E","X","E","C">>,
       <<"E","X","E","C","U","T","E">> >>

\* The end of the line that position i is on: the index of its "\n", or Len(s) + 1.
RECURSIVE EndOfLine(_, _)
EndOfLine(s, i) == IF i > Len(s) \/ s[i] = "\n" THEN i ELSE EndOfLine(s, i + 1)

\* re.sub(r"--.*$", "", s, flags=re.MULTILINE), from position i on.
RECURSIVE StripLineCommentsFrom(_, _)
StripLineCommentsFrom(s, i) ==
    IF i > Len(s) THEN <<>>
    ELSE IF StartsAt(s, i, <<"-","-">>)
         THEN StripLineCommentsFrom(s, EndOfLine(s, i + 2))
         ELSE <<s[i]>> \o StripLineCommentsFrom(s, i + 1)

StripLineComments(s) == StripLineCommentsFrom(s, 1)

\* re.sub(r"/\*.*?\*/", "", s, flags=re.DOTALL), from position i on: an opener
\* with no closer after it stays in the text.
RECURSIVE StripBlockCommentsFrom(_, _)
StripBlockCommentsFrom(s, i) ==
    IF i > Len(s) THEN <<>>
    ELSE IF StartsAt(s, i, <<"/","*">>) /\ Find(s, i + 2, <<"*","/">>) # 0
         THEN StripBlockCommentsFrom(s, Find(s, i + 2, <<"*","/">>) + 2)
         ELSE <<s[i]>> \o StripBlockCommentsFrom(s, i + 1)

StripBlockComments(s) == StripBlockCommentsFrom(s, 1)

\* The text validate_sql checks: comments out, then trimmed.
StripComments(sql) == Strip(StripBlockComments(StripLineComments(sql)))

\* Layer 1 without .upper(): only the capital spelling passes.
StartsWithSelect_caseSensitive(cleaned) == StartsWith(cleaned, SELECT)

\* Layer 1: cleaned.upper().startswith("SELECT")
StartsWithSelect(cleaned) == StartsWith(Upper(cleaned), SELECT)

\* Layer 2: the blocked keywords found as whole words, by position in the list.
BlockedHits(cleaned) ==
    {k \in 1..Len(blocked_keywords) : HasWord(cleaned, blocked_keywords[k])}

\* The keyword the loop over blocked_keywords stops at.
FirstBlocked(cleaned) ==
    LET hits == BlockedHits(cleaned) IN
    blocked_keywords[CHOOSE k \in hits : \A m \in hits : k <= m]

\* Layer 3 as r";\S": only text directly after the semicolon counts.
HasSecondStatement_adjacent(cleaned) ==
    \E i \in 1..(Len(cleaned) - 1) : cleaned[i] = ";" /\ ~IsSpace(cleaned[i + 1])

\* Layer 3: re.search(r";\s*\S", cleaned)
HasSecondStatement(cleaned) ==
    \E i \in 1..Len(cleaned) :
        /\ cleaned[i] = ";"
        /\ \E j \in (i + 1)..Len(cleaned) :
               /\ ~IsSpace(cleaned[j])
               /\ \A m \in (i + 1)..(j - 1) : IsSpace(cleaned[m])

\* validate_sql(sql) -> (is_safe, reason)
validate_sql(sql) ==
    LET cleaned == StripComments(sql) IN
    IF ~StartsWithSelect(cleaned) THEN <<FALSE, MSG_ONLY_SELECT>>
    ELSE IF BlockedHits(cleaned) # {} THEN <<FALSE, MsgContains(FirstBlocked(cleaned))>>
    ELSE IF HasSecondStatement(cleaned) THEN <<FALSE, MSG_MULTIPLE>>
    ELSE <<TRUE, MSG_OK>>

MAX_QUESTION_LENGTH == 500

MAX_RESULT_ROWS == 1000

\* The class [\x00-\x08\x0b\x0c\x0e-\x1f\x7f] that sanitize_input removes.
IsRemovedControl(c) == c \in {"NUL", "BEL", "VT", "FF", "ESC", "DEL"}

\* A character the substitution leaves in place.
IsKept(c) == ~IsRemovedControl(c)

\* re.sub(r"[\x00-\x08\x0b\x0c\x0e-\x1f\x7f]", "", question)
RemoveControls(s) == SelectSeq(s, IsKept)

\* sanitize_input with the slice cleaned[:MAX_QUESTION_LENGTH + 1].
sanitize_input_oneMore(text) ==
    IF text = None \/ text = <<>> THEN <<>>
    ELSE LET cleaned == Strip(RemoveControls(text)) IN
         IF Len(cleaned) > MAX_QUESTION_LENGTH
         THEN SubSeq(cleaned, 1, MAX_QUESTION_LENGTH + 1)
         ELSE cleaned

\* sanitize_input(question)
sanitize_input(text) ==
    IF text = None \/ text = <<>> THEN <<>>
    ELSE LET cleaned == Strip(RemoveControls(text)) IN
         IF Len(cleaned) > MAX_QUESTION_LENGTH
         THEN SubSeq(cleaned, 1, MAX_QUESTION_LENGTH)
         ELSE cleaned

\* enforce_limit without re.IGNORECASE: only the capital spelling is found.
enforce_limit_caseSensitive(sql, max_rows) ==
    IF \E i \in 1..Len(sql) :
           /\ StartsAt(sql, i, LIMIT)
           /\ (i = 1 \/ ~IsWordChar(sql[i - 1]))
           /\ (i + Len(LIMIT) > Len(sql) \/ ~IsWordChar(sql[i + Len(LIMIT)]))
    THEN sql
    ELSE RStripSemicolons(RStrip(sql)) \o <<" ","L","I","M","I","T"," ">> \o IntStr(max_rows)

\* enforce_limit without the look for an existing LIMIT.
enforce_limit_always(sql, max_rows) ==
    RStripSemicolons(RStrip(sql)) \o <<" ","L","I","M","I","T"," ">> \o IntStr(max_rows)

\* enforce_limit(sql, max_rows)
enforce_limit(sql, max_rows) ==
    IF HasWord(sql, LIMIT) THEN sql
    ELSE RStripSemicolons(RStrip(sql)) \o <<" ","L","I","M","I","T"," ">> \o IntStr(max_rows)


(***************************************************************************)
(* wcm_agent/formatters.py                                                 *)
(*                                                                         *)
(* A scalar of a result row is a record: t is its Python type ("int",      *)
(* "float", "str", "null" for None, "bytes" for a BLOB), n its number and  *)
(* s its text.  A float's n counts hundredths (464475 is 4644.75), the     *)
(* values whose two-decimal rendering is exact.                            *)
(***************************************************************************)

IntVal(n) == [t |-> "int", n |-> n, s |-> <<>>]

FloatVal(hundredths) == [t |-> "float", n |-> hundredths, s |-> <<>>]

StrVal(s) == [t |-> "str", n |-> 0, s |-> s]

NullVal == [t |-> "null", n |-> 0, s |-> <<>>]

BytesVal(s) == [t |-> "bytes", n |-> 0, s |-> s]

NO_RESULTS == <<"N","o"," ","r","e","s","u","l","t","s"," ","f","o","u","n","d",".">>

\* Three digits, zero-padded: a group after a thousands separator.
Group3(n) ==
    <<DigitChars[(n \div 100) + 1], DigitChars[((n \div 10) % 10) + 1], DigitChars[(n % 10) + 1]>>

\* f"{n:,}" of a natural number.
RECURSIVE Commas(_)
Commas(n) == IF n < 1000 THEN NatStr(n)
             ELSE Commas(n \div 1000) \o <<",">> \o Group3(n % 1000)

\* f"{value:,.2f}" of a number given in hundredths.
Money(hundredths) ==
    LET a == IF hundredths < 0 THEN 0 - hundredths ELSE hundredths IN
    (IF hundredths < 0 THEN <<"-">> ELSE <<>>)
    \o Commas(a \div 100) \o <<".">>
    \o <<DigitChars[((a \div 10) % 10) + 1], DigitChars[(a % 10) + 1]>>

\* The number of hundredths in an int or a float value.
Hundredths(value) == IF value.t = "int" THEN value.n * 100 ELSE value.n

\* f"{value}" of a value that takes the plain branch.
PlainStr(value) ==
    CASE value.t = "int"   -> IntStr(value.n)
      [] value.t = "str"   -> value.s
      [] value.t = "null"  -> <<"N","o","n","e">>
      [] value.t = "bytes" -> <<"b","'">> \o value.s \o <<"'">>
      [] OTHER             -> Money(value.n)

\* The single-value branch testing isinstance(value, float) only.
SingleValue_floatOnly(key, value) ==
    IF value.t = "float"
    THEN key \o <<":"," ","$">> \o Money(Hundredths(value))
    ELSE key \o <<":"," ">> \o PlainStr(value)

\* The single-value branch: isinstance(value, (int, float))
SingleValue(key, value) ==
    IF value.t \in {"int", "float"}
    THEN key \o <<":"," ","$">> \o Money(Hundredths(value))
    ELSE key \o <<":"," ">> \o PlainStr(value)

\* One field of the multi-row branch: isinstance(v, float)
RowPart(key, value) ==
    IF value.t = "float"
    THEN key \o <<":"," ","$">> \o Money(Hundredths(value))
    ELSE key \o <<":"," ">> \o PlainStr(value)

\* sep.join(parts)
RECURSIVE Join(_, _)
Join(sep, parts) ==
    IF parts = <<>> THEN <<>>
    ELSE IF Len(parts) = 1 THEN parts[1]
    ELSE parts[1] \o sep \o Join(sep, Tail(parts))

\* One line of the multi-row branch; a row is a dict, kept as its items in order.
RowLine(row) ==
    Join(<<" ","|"," ">>, [i \in 1..Len(row) |-> RowPart(row[i].k, row[i].v)])

\* format_result_deterministic(question, result_data)
format_result_deterministic(q, data) ==
    IF data = <<>> THEN NO_RESULTS
    ELSE IF Len(data) = 1 /\ Len(data[1]) = 1
         THEN SingleValue(data[1][1].k, data[1][1].v)
         ELSE Join(<<"\n">>, [i \in 1..Len(data) |-> RowLine(data[i])])

\* The result_data argument as a caller may pass it: None, or a list of dicts.
NoneData == [none |-> TRUE, list |-> <<>>]

ListData(data) == [none |-> FALSE, list |-> data]

\* format_result_deterministic(question, result_data) where result_data may
\* be None: `not result_data` holds of None as of the empty list.
FormatResult(q, arg) ==
    IF arg.none THEN NO_RESULTS ELSE format_result_deterministic(q, arg.list)

(***************************************************************************)
(* wcm_agent/agent.py: helpers                                             *)
(***************************************************************************)

\* The three backquotes of a markdown code fence.
FENCE == <<"BQ","BQ","BQ">>

\* _clean_sql_response(raw_sql)
clean_sql_response(raw_sql) ==
    LET s0 == Strip(raw_sql)
        s1 == IF StartsWith(s0, FENCE)
              THEN IF Find(s0, 1, <<"\n">>) # 0
                   THEN From(s0, Find(s0, 1, <<"\n">>) + 1)
                   ELSE From(s0, 4)
              ELSE s0
        s2 == IF EndsWith(s1, FENCE)
              THEN SubSeq(s1, 1, RFind(s1, Len(s1) - 2, FENCE) - 1)
              ELSE s1
    IN Strip(s2)

\* dict(zip(columns, row)): the items in insertion order; a repeated column
\* name keeps its first place and takes the later value.
RECURSIVE DictZipFrom(_, _, _, _)
DictZipFrom(cols, row, i, acc) ==
    IF i > Len(cols) \/ i > Len(row) THEN acc
    ELSE LET at == {j \in 1..Len(acc) : acc[j].k = cols[i]} IN
         DictZipFrom(cols, row, i + 1,
             IF at = {} THEN Append(acc, [k |-> cols[i], v |-> row[i]])
             ELSE [j \in 1..Len(acc) |->
                      IF j \in at THEN [k |-> cols[i], v |-> row[i]] ELSE acc[j]])

DictZip(cols, row) == DictZipFrom(cols, row, 1, <<>>)

\* [dict(zip(columns, row)) for row in rows]
ResultData(cols, rs) == [i \in 1..Len(rs) |-> DictZip(cols, rs[i])]

\* json.dumps(result_data) returns: no value is a bytes object (it raises
\* TypeError on one).
JsonSerializable(data) ==
    \A i \in 1..Len(data) : \A j \in 1..Len(data[i]) : data[i][j].v.t # "bytes"


(***************************************************************************)
(* wcm_agent/agent.py: ask_database                                        *)
(*                                                                         *)
(* One call of ask_database, cut into steps at its external calls: the     *)
(* completion service, time.sleep and the data connection.  Each external  *)
(* call is recorded in trace as an event: op names the call, ok whether    *)
(* it returned a usable result, arg its text and err the text of the       *)
(* exception when it raised.  validate_sql is recorded too.                *)
(***************************************************************************)

MAX_RETRIES == 3

INITIAL_BACKOFF_SECONDS == 1

QUERY_TIMEOUT_SECONDS == 30

\* The largest max_retries a caller passes (the default MAX_RETRIES is always tried).
MaxRetryArg == 3

ERR_EMPTY == <<"E","R","R","O","R",":"," ","E","m","p","t","y"," ","q","u","e","s","t","i","o","n"," ","p","r","o","v","i","d","e","d",".">>

ERR_NO_KEY == <<"E","R","R","O","R",":"," ","O","P","E","N","A","I","_","A","P","I","_","K","E","Y"," ","n","o","t"," ","s","e","t","."," ","C","o","p","y"," ",".","e","n","v",".","e","x","a","m","p","l","e"," ","t","o"," ",".","e","n","v"," ","a","n","d"," ","a","d","d"," ","y","o","u","r"," ","k","e","y",".">>

\* str(e) of the AttributeError that message.content.strip() raises on a
\* completion whose content is None.
MSG_NONETYPE == <<"'","N","o","n","e","T","y","p","e","'"," ","o","b","j","e","c","t"," ","h","a","s"," ","n","o"," ","a","t","t","r","i","b","u","t","e"," ","'","s","t","r","i","p","'">>

\* f"API ERROR: Could not generate SQL after {max_retries + 1} attempts: {last_error}"
ApiErrorAnswer(retries, err) ==
    <<"A","P","I"," ","E","R","R","O","R",":"," ","C","o","u","l","d"," ","n","o","t"," ","g","e","n","e","r","a","t","e"," ","S","Q","L"," ","a","f","t","e","r"," ">>
    \o IntStr(retries + 1) \o <<" ","a","t","t","e","m","p","t","s",":"," ">> \o err

\* f"SAFETY ERROR: {reason}"
SafetyAnswer(why) == <<"S","A","F","E","T","Y"," ","E","R","R","O","R",":"," ">> \o why

\* f"SQL EXECUTION ERROR: {e}"
ExecErrorAnswer(e) == <<"S","Q","L"," ","E","X","E","C","U","T","I","O","N"," ","E","R","R","O","R",":"," ">> \o e

\* f"PRAGMA busy_timeout = {QUERY_TIMEOUT_SECONDS * 1000}"
PragmaText == <<"P","R","A","G","M","A"," ","b","u","s","y","_","t","i","m","e","o","u","t"," ","="," ">> \o IntStr(QUERY_TIMEOUT_SECONDS * 1000)

Ev(op, ok, arg, err) == [op |-> op, ok |-> ok, arg |-> arg, err |-> err]

\* Which events of the trace are calls of op.
Calls(tr, op) == {i \in 1..Len(tr) : tr[i].op = op}

\* Mutant: only an unset variable counts as missing (if api_key is None).
KeyMissing_unsetOnly(key) == key = None

\* if not api_key
KeyMissing(key) == key = None \/ key = <<>>

\* if not question
EmptyQuestion(q) == q = <<>>

\* if attempt < max_retries: back off before the next attempt
ShouldSleep(att, retries) == att < retries

\* Mutant: range(max_retries), one attempt short.
LoopContinues_short(att, retries) == att + 1 < retries

\* for attempt in range(max_retries + 1): there is a next value of attempt
LoopContinues(att, retries) == att + 1 < retries + 1

\* Mutant: a backoff that grows linearly.
Backoff_linear(att) == INITIAL_BACKOFF_SECONDS * (att + 1)

\* backoff = INITIAL_BACKOFF_SECONDS * (2 ** attempt)
Backoff(att) == INITIAL_BACKOFF_SECONDS * (2 ^ att)

\* Mutant: the verdict is computed and never acted on.
Rejected_never(safe) == FALSE

\* if not is_safe
Rejected(safe) == ~safe

\* Mutant: an empty result set goes on to formatting.
NoRows_never(rs) == FALSE

\* if not rows
NoRows(rs) == rs = <<>>

(* The caller and the collaborators: what they may hand to ask_database. *)

\* The question argument: None, empty, empty once sanitized, and a real one.
Questions ==
    { None,
      <<>>,
      <<" ","NUL","\t">>,
      <<" ","h","i","BEL"," ">> }

\* os.getenv("OPENAI_API_KEY"): unset, set to the empty string, set.
ApiKeys ==
    { None,
      <<>>,
      <<"k">> }

\* The max_retries a call runs with.
RetryArgs == (0..MaxRetryArg) \cup {MAX_RETRIES}

\* str(e) of an exception the completion service raises.
ApiErrors ==
    { <<"d","o","w","n">>,
      <<>> }

\* message.content of a SQL-generation completion.
SqlCompletions ==
    { <<"S","E","L","E","C","T"," ","1">>,
      <<"BQ","BQ","BQ","s","q","l","\n","S","E","L","E","C","T"," ","a"," ","F","R","O","M"," ","t",";","\n","BQ","BQ","BQ">>,
      <<" ","s","e","l","e","c","t"," ","a"," ","l","i","m","i","t"," ","5"," ">>,
      <<"S","E","L","E","C","T"," ","a"," ","-","-"," ","x","\n">>,
      <<"D","R","O","P"," ","T","A","B","L","E"," ","w">>,
      <<"S","E","L","E","C","T"," ","1",";"," ","D","R","O","P"," ","T","A","B","L","E"," ","w">>,
      <<>>,
      <<"S","E","L","E","C","T","X"," ","1">> }

\* message.content of an answer-formatting completion.
AnswerCompletions ==
    { <<"5"," ","r","o","w","s">>,
      <<>>,
      <<" ","\n">> }

\* str(e) of an exception the data connection raises.
DbErrors ==
    { <<"n","o"," ","s","u","c","h"," ","t","a","b","l","e",":"," ","t">>,
      <<"l","o","c","k","e","d">> }

\* What a query returns: cursor.description's names and cursor.fetchall().
ResultSets ==
    { [columns |-> << <<"a">> >>, rows |-> <<>>],
      [columns |-> << <<"a">> >>, rows |-> << <<IntVal(5)>> >>],
      [columns |-> << <<"a">> >>, rows |-> << <<FloatVal(464475)>> >>],
      [columns |-> << <<"a">> >>, rows |-> << <<StrVal(<<"A","l">>)>> >>],
      [columns |-> << <<"a">> >>, rows |-> << <<NullVal>> >>],
      [columns |-> << <<"a">> >>, rows |-> << <<BytesVal(<<"A">>)>> >>],
      [columns |-> << <<"a">>, <<"a">> >>, rows |-> << <<IntVal(1234567), FloatVal(0 - 50)>> >>],
      [columns |-> << <<"w">>, <<"r">> >>,
       rows |-> << <<StrVal(<<"A","l">>), FloatVal(464475)>>, <<NullVal, IntVal(5)>> >>] }


\* No direct call of format_result_deterministic is under way.
FormatIdle ==
    /\ fpc = "idle"
    /\ data_in = NoneData
    /\ formatted = <<>>

(* ask_database, step by step. *)

Init ==
    /\ pc = "Start"
    /\ asked \in Questions
    /\ question = asked
    /\ api_key \in ApiKeys
    /\ max_retries \in RetryArgs
    /\ attempt = 0
    /\ last_error = None
    /\ generated_sql = None
    /\ candidate = None
    /\ is_safe = FALSE
    /\ reason = <<>>
    /\ columns = <<>>
    /\ rows = <<>>
    /\ result_data = <<>>
    /\ deterministic_answer = None
    /\ answer = None
    /\ trace = <<>>
    /\ sleeps = <<>>
    /\ vpc = "idle"
    /\ sql_in = <<>>
    /\ verdict = <<FALSE, <<>>>>
    /\ lpc = "idle"
    /\ limit_sql = <<>>
    /\ limit_rows = <<>>
    /\ limited = <<>>
    /\ relimited = <<>>
    /\ spc = "idle"
    /\ text_in = <<>>
    /\ sanitized = <<>>
    /\ FormatIdle

\* Lines 56-65: sanitise the question, then look for the credential.
Sanitize ==
    /\ pc = "Start"
    /\ question' = sanitize_input(question)
    /\ IF EmptyQuestion(question')
       THEN pc' = "Done" /\ answer' = ERR_EMPTY
       ELSE IF KeyMissing(api_key)
            THEN pc' = "Done" /\ answer' = ERR_NO_KEY
            ELSE pc' = "Generating" /\ answer' = answer
    /\ UNCHANGED <<pureVars, asked, api_key, max_retries, attempt, last_error, generated_sql,
                   candidate, is_safe, reason, columns, rows, result_data,
                   deterministic_answer, trace, sleeps>>

\* The for statement takes its next value, or ends with generated_sql still
\* None (lines 86, 111-112).
NextAttempt(err) ==
    IF LoopContinues(attempt, max_retries)
    THEN pc' = "Generating" /\ attempt' = attempt + 1 /\ answer' = answer
    ELSE pc' = "Done" /\ attempt' = attempt
         /\ answer' = ApiErrorAnswer(max_retries, err)

\* The except clause of the generation loop (lines 99-109), up to time.sleep.
AttemptFailed(e) ==
    /\ last_error' = e
    /\ IF ShouldSleep(attempt, max_retries)
       THEN pc' = "Backoff" /\ UNCHANGED <<attempt, answer>>
       ELSE NextAttempt(e)

\* Lines 88-95: the completion service raises.
GenerateRaises ==
    /\ pc = "Generating"
    /\ \E e \in ApiErrors :
          /\ trace' = Append(trace, Ev("generate", FALSE, <<>>, e))
          /\ AttemptFailed(e)
    /\ UNCHANGED <<pureVars, asked, question, api_key, max_retries, generated_sql, candidate,
                   is_safe, reason, columns, rows, result_data,
                   deterministic_answer, sleeps>>

\* Lines 88-98: the completion service returns; a completion without content
\* fails the attempt inside the try (None has no strip).
GenerateReturns ==
    /\ pc = "Generating"
    /\ \E content \in SqlCompletions \cup {None} :
          IF content = None
          THEN /\ trace' = Append(trace, Ev("generate", FALSE, <<>>, MSG_NONETYPE))
               /\ AttemptFailed(MSG_NONETYPE)
               /\ UNCHANGED generated_sql
          ELSE /\ trace' = Append(trace, Ev("generate", TRUE, content, <<>>))
               /\ generated_sql' = Strip(content)
               /\ pc' = "Validating"
               /\ UNCHANGED <<attempt, last_error, answer>>
    /\ UNCHANGED <<pureVars, asked, question, api_key, max_retries, candidate,
                   is_safe, reason, columns, rows, result_data,
                   deterministic_answer, sleeps>>

\* Line 107: time.sleep(backoff), then the loop goes on.
Sleep ==
    /\ pc = "Backoff"
    /\ sleeps' = Append(sleeps, Backoff(attempt))
    /\ trace' = Append(trace, Ev("sleep", TRUE, <<>>, <<>>))
    /\ NextAttempt(last_error)
    /\ UNCHANGED <<pureVars, asked, question, api_key, max_retries, last_error, generated_sql,
                   candidate, is_safe, reason, columns, rows, result_data,
                   deterministic_answer>>

\* Lines 114-125: strip the fences, validate, and on a safe verdict enforce
\* the row limit.
Validate ==
    /\ pc = "Validating"
    /\ candidate' = clean_sql_response(generated_sql)
    /\ is_safe' = validate_sql(candidate')[1]
    /\ reason' = validate_sql(candidate')[2]
    /\ trace' = Append(trace, Ev("validate", is_safe', candidate', <<>>))
    /\ IF Rejected(is_safe')
       THEN /\ pc' = "Done"
            /\ answer' = SafetyAnswer(reason')
            /\ generated_sql' = candidate'
       ELSE /\ pc' = "Executing"
            /\ answer' = answer
            /\ generated_sql' = enforce_limit(candidate', MAX_RESULT_ROWS)
    /\ UNCHANGED <<pureVars, asked, question, api_key, max_retries, attempt, last_error,
                   columns, rows, result_data, deterministic_answer, sleeps>>

\* Mutant: a failure to set the timeout is swallowed and the query still runs.
PragmaRaises_swallowed ==
    /\ pc = "Executing"
    /\ \E e \in DbErrors :
          trace' = Append(trace, Ev("pragma", FALSE, PragmaText, e))
    /\ pc' = "Querying"
    /\ UNCHANGED <<pureVars, asked, question, api_key, max_retries, attempt, last_error,
                   generated_sql, candidate, is_safe, reason, columns, rows,
                   result_data, deterministic_answer, answer, sleeps>>

\* Line 130: setting the timeout raises.
PragmaRaises ==
    /\ pc = "Executing"
    /\ \E e \in DbErrors :
          /\ trace' = Append(trace, Ev("pragma", FALSE, PragmaText, e))
          /\ answer' = ExecErrorAnswer(e)
    /\ pc' = "Done"
    /\ UNCHANGED <<pureVars, asked, question, api_key, max_retries, attempt, last_error,
                   generated_sql, candidate, is_safe, reason, columns, rows,
                   result_data, deterministic_answer, sleeps>>

\* Line 130: the timeout is set.
PragmaReturns ==
    /\ pc = "Executing"
    /\ trace' = Append(trace, Ev("pragma", TRUE, PragmaText, <<>>))
    /\ pc' = "Querying"
    /\ UNCHANGED <<pureVars, asked, question, api_key, max_retries, attempt, last_error,
                   generated_sql, candidate, is_safe, reason, columns, rows,
                   result_data, deterministic_answer, answer, sleeps>>

\* Lines 131-136: executing the query, or reading its result, raises.
QueryRaises ==
    /\ pc = "Querying"
    /\ \E e \in DbErrors :
          /\ trace' = Append(trace, Ev("execute", FALSE, generated_sql, e))
          /\ answer' = ExecErrorAnswer(e)
    /\ pc' = "Done"
    /\ UNCHANGED <<pureVars, asked, question, api_key, max_retries, attempt, last_error,
                   generated_sql, candidate, is_safe, reason, columns, rows,
                   result_data, deterministic_answer, sleeps>>

\* Lines 131-145: the query returns its rows; none ends the call, otherwise
\* the deterministic answer is computed and the rows are logged as JSON,
\* outside any try: json.dumps raising ends the call with that exception.
QueryReturns ==
    /\ pc = "Querying"
    /\ \E rs \in ResultSets :
          /\ columns' = rs.columns
          /\ rows' = rs.rows
    /\ trace' = Append(trace, Ev("execute", TRUE, generated_sql, <<>>))
    /\ IF NoRows(rows')
       THEN /\ pc' = "Done"
            /\ answer' = NO_RESULTS
            /\ UNCHANGED <<result_data, deterministic_answer>>
       ELSE /\ result_data' = ResultData(columns', rows')
            /\ deterministic_answer' = format_result_deterministic(question, result_data')
            /\ pc' = IF JsonSerializable(result_data') THEN "Formatting" ELSE "Raised"
            /\ answer' = answer
    /\ UNCHANGED <<pureVars, asked, question, api_key, max_retries, attempt, last_error,
                   generated_sql, candidate, is_safe, reason, sleeps>>

\* Lines 156-171: the formatting completion raises; the deterministic answer
\* is returned.
FormatRaises ==
    /\ pc = "Formatting"
    /\ \E e \in ApiErrors :
          trace' = Append(trace, Ev("format", FALSE, <<>>, e))
    /\ answer' = deterministic_answer
    /\ pc' = "Done"
    /\ UNCHANGED <<pureVars, asked, question, api_key, max_retries, attempt, last_error,
                   generated_sql, candidate, is_safe, reason, columns, rows,
                   result_data, deterministic_answer, sleeps>>

\* Lines 156-171: the formatting completion returns; its stripped content is
\* the answer, and a completion without content falls back like a raise.
FormatReturns ==
    /\ pc = "Formatting"
    /\ \E content \in AnswerCompletions \cup {None} :
          IF content = None
          THEN /\ trace' = Append(trace, Ev("format", FALSE, <<>>, MSG_NONETYPE))
               /\ answer' = deterministic_answer
          ELSE /\ trace' = Append(trace, Ev("format", TRUE, content, <<>>))
               /\ answer' = Strip(content)
    /\ pc' = "Done"
    /\ UNCHANGED <<pureVars, asked, question, api_key, max_retries, attempt, last_error,
                   generated_sql, candidate, is_safe, reason, columns, rows,
                   result_data, deterministic_answer, sleeps>>

Next ==
    \/ Sanitize
    \/ GenerateRaises
    \/ GenerateReturns
    \/ Sleep
    \/ Validate
    \/ PragmaRaises
    \/ PragmaReturns
    \/ QueryRaises
    \/ QueryReturns
    \/ FormatRaises
    \/ FormatReturns

Spec == Init /\ [][Next]_vars

\* ask_database has neither returned nor raised (nor is it not called at all).
Running == pc \notin {"Done", "Raised", "Idle"}

\* The call moves on to its next position.  Every step of Next is such a
\* move, and a running call always has one.
Advance ==
    /\ Running
    /\ pc' \in {"Generating", "Backoff", "Validating", "Executing", "Querying",
                "Formatting", "Done", "Raised"}

\* ask_database is sequential code: while it is running, its next step is
\* taken (an external call returns or raises, a sleep ends).
SpecProgress == Spec /\ WF_pc(Advance)


(***************************************************************************)
(* validate_sql called directly, on every text built from at most          *)
(* MaxFragments of the fragments below.  The newline is the whitespace of  *)
(* these texts: it separates words as a space does and ends a line comment.*)
(***************************************************************************)

MaxFragments == 4

SqlFragments ==
    << <<"S","E","L","E","C","T">>, <<"s","e","l","e","c","t">>, <<"\n">>,
       <<"x">>, <<";">>, <<"-","-">>, <<"/","*">>, <<"*","/">>, <<"D","R","O","P">>,
       <<"u","p","d","a","t","e">>, <<"'","-","-","'">>, <<"/","*","-","-","*","/">> >>

\* The fragments picks[1], picks[2], ... written one after the other.
RECURSIVE Concat(_)
Concat(picks) ==
    IF picks = <<>> THEN <<>> ELSE SqlFragments[Head(picks)] \o Concat(Tail(picks))

SqlInputs ==
    {Concat(picks) : picks \in UNION {[1..n -> 1..Len(SqlFragments)] : n \in 0..MaxFragments}}

InitValidate ==
    /\ pc = "Idle"
    /\ asked = <<>>
    /\ question = <<>>
    /\ api_key = None
    /\ max_retries = 0
    /\ attempt = 0
    /\ last_error = None
    /\ generated_sql = None
    /\ candidate = None
    /\ is_safe = FALSE
    /\ reason = <<>>
    /\ columns = <<>>
    /\ rows = <<>>
    /\ result_data = <<>>
    /\ deterministic_answer = None
    /\ answer = None
    /\ trace = <<>>
    /\ sleeps = <<>>
    /\ vpc = "call"
    /\ sql_in \in SqlInputs
    /\ verdict = <<FALSE, <<>>>>
    /\ lpc = "idle"
    /\ limit_sql = <<>>
    /\ limit_rows = <<>>
    /\ limited = <<>>
    /\ relimited = <<>>
    /\ spc = "idle"
    /\ text_in = <<>>
    /\ sanitized = <<>>
    /\ FormatIdle

\* validate_sql(sql_in) runs and returns its verdict.
ValidateCall ==
    /\ vpc = "call"
    /\ verdict' = validate_sql(sql_in)
    /\ vpc' = "return"
    /\ UNCHANGED <<sql_in, agentVars, limitVars, sanitizeVars, formatVars>>

NextValidate == ValidateCall

SpecValidate == InitValidate /\ [][NextValidate]_vars

\* ask_database is not running: its variables at rest.
AgentIdle ==
    /\ pc = "Idle"
    /\ asked = <<>>
    /\ question = <<>>
    /\ api_key = None
    /\ max_retries = 0
    /\ attempt = 0
    /\ last_error = None
    /\ generated_sql = None
    /\ candidate = None
    /\ is_safe = FALSE
    /\ reason = <<>>
    /\ columns = <<>>
    /\ rows = <<>>
    /\ result_data = <<>>
    /\ deterministic_answer = None
    /\ answer = None
    /\ trace = <<>>
    /\ sleeps = <<>>

(***************************************************************************)
(* enforce_limit called directly, and then again on its own result, on     *)
(* every text built from at most MaxLimitFragments of the fragments below. *)
(***************************************************************************)

MaxLimitFragments == 4

LimitFragments ==
    << <<"S","E","L","E","C","T"," ","a">>, <<" ">>, <<"\n">>, <<";">>,
       <<"L","I","M","I","T">>, <<"l","i","m","i","t">>, <<"s">>, <<"5">> >>

RECURSIVE LimitConcat(_)
LimitConcat(picks) ==
    IF picks = <<>> THEN <<>> ELSE LimitFragments[Head(picks)] \o LimitConcat(Tail(picks))

LimitInputs ==
    {LimitConcat(picks) :
        picks \in UNION {[1..n -> 1..Len(LimitFragments)] : n \in 0..MaxLimitFragments}}

\* The argument max_rows: <<>> is None (the default), <<n>> is the number n.
LimitRowArgs == {<<>>, <<1>>, <<50>>}

\* Lines 87-88: None stands for MAX_RESULT_ROWS.
MaxRows(arg) == IF arg = <<>> THEN MAX_RESULT_ROWS ELSE arg[1]

InitLimit ==
    /\ AgentIdle
    /\ vpc = "idle"
    /\ sql_in = <<>>
    /\ verdict = <<FALSE, <<>>>>
    /\ lpc = "call"
    /\ limit_sql \in LimitInputs
    /\ limit_rows \in LimitRowArgs
    /\ limited = <<>>
    /\ relimited = <<>>
    /\ spc = "idle"
    /\ text_in = <<>>
    /\ sanitized = <<>>
    /\ FormatIdle

\* enforce_limit(limit_sql, limit_rows) runs and returns.
LimitCall ==
    /\ lpc = "call"
    /\ limited' = enforce_limit(limit_sql, MaxRows(limit_rows))
    /\ lpc' = "once"
    /\ UNCHANGED <<limit_sql, limit_rows, relimited, agentVars, validateVars, sanitizeVars, formatVars>>

\* enforce_limit runs on the text it returned.
LimitAgain ==
    /\ lpc = "once"
    /\ relimited' = enforce_limit(limited, MaxRows(limit_rows))
    /\ lpc' = "twice"
    /\ UNCHANGED <<limit_sql, limit_rows, limited, agentVars, validateVars, sanitizeVars, formatVars>>

NextLimit ==
    \/ LimitCall
    \/ LimitAgain

SpecLimit == InitLimit /\ [][NextLimit]_vars

(***************************************************************************)
(* sanitize_input called directly: on None, on every text of at most       *)
(* MaxChars of the characters below, and on texts about as long as         *)
(* MAX_QUESTION_LENGTH (a run of letters with a short tail).               *)
(***************************************************************************)

MaxChars == 3

SanitizeChars == {" ", "\t", "\n", "\r", "NUL", "BEL", "VT", "FF", "ESC", "DEL", "a"}

ShortTexts == UNION {[1..n -> SanitizeChars] : n \in 0..MaxChars}

MaxUnder == 2

MaxTail == 2

TailChars == {" ", "\r", "NUL", "a"}

\* n letters.
Pad(n) == [i \in 1..n |-> "a"]

LongTexts ==
    {Pad(MAX_QUESTION_LENGTH - k) \o t :
        k \in 0..MaxUnder, t \in UNION {[1..n -> TailChars] : n \in 0..MaxTail}}

SanitizeInputs == {None} \cup ShortTexts \cup LongTexts

InitSanitize ==
    /\ AgentIdle
    /\ vpc = "idle"
    /\ sql_in = <<>>
    /\ verdict = <<FALSE, <<>>>>
    /\ lpc = "idle"
    /\ limit_sql = <<>>
    /\ limit_rows = <<>>
    /\ limited = <<>>
    /\ relimited = <<>>
    /\ spc = "call"
    /\ text_in \in SanitizeInputs
    /\ sanitized = <<>>
    /\ FormatIdle

\* sanitize_input(text_in) runs and returns.
SanitizeCall ==
    /\ spc = "call"
    /\ sanitized' = sanitize_input(text_in)
    /\ spc' = "return"
    /\ UNCHANGED <<text_in, agentVars, validateVars, limitVars, formatVars>>

NextSanitize == SanitizeCall

SpecSanitize == InitSanitize /\ [][NextSanitize]_vars

(***************************************************************************)
(* format_result_deterministic called directly: on None and on every list  *)
(* of at most MaxDataRows dicts, a dict holding at most one value under    *)
(* each of two column names, in either order.                              *)
(***************************************************************************)

MaxDataRows == 2

FormatKeys == {<<"n">>, <<"t">>}

FormatValues ==
    {IntVal(1234), FloatVal(464475), FloatVal(0 - 5), StrVal(<<"A","l">>), NullVal}

\* The dicts: empty, one item, two items with different keys.
FormatDicts ==
    {<<>>}
    \cup {<<[k |-> k1, v |-> v1]>> : k1 \in FormatKeys, v1 \in FormatValues}
    \cup {<<[k |-> kk[1], v |-> vv[1]], [k |-> kk[2], v |-> vv[2]]>> :
             kk \in {x \in FormatKeys \X FormatKeys : x[1] # x[2]},
             vv \in FormatValues \X FormatValues}

FormatInputs ==
    {NoneData} \cup {ListData(d) : d \in UNION {[1..n -> FormatDicts] : n \in 0..MaxDataRows}}

\* The question argument, which the function does not read.
FormatQuestion == <<"q","?">>

InitFormat ==
    /\ AgentIdle
    /\ vpc = "idle"
    /\ sql_in = <<>>
    /\ verdict = <<FALSE, <<>>>>
    /\ lpc = "idle"
    /\ limit_sql = <<>>
    /\ limit_rows = <<>>
    /\ limited = <<>>
    /\ relimited = <<>>
    /\ spc = "idle"
    /\ text_in = <<>>
    /\ sanitized = <<>>
    /\ fpc = "call"
    /\ data_in \in FormatInputs
    /\ formatted = <<>>

\* format_result_deterministic(FormatQuestion, data_in) runs and returns.
FormatCall ==
    /\ fpc = "call"
    /\ formatted' = FormatResult(FormatQuestion, data_in)
    /\ fpc' = "return"
    /\ UNCHANGED <<data_in, agentVars, validateVars, limitVars, sanitizeVars>>

NextFormat == FormatCall

SpecFormat == InitFormat /\ [][NextFormat]_vars

(***************************************************************************)
(* Steps 2 and 3 of ask_database on their own: validate_sql on a candidate *)
(* and, when it is safe, enforce_limit on the same candidate, whose result *)
(* is the text handed to conn.execute.  The candidates are the texts built *)
(* from at most MaxExecFragments of the fragments below.                   *)
(***************************************************************************)

MaxExecFragments == 4

ExecFragments ==
    { <<"S","E","L","E","C","T"," ","1">>,
      <<";">>, <<" ">>, <<"\n">>, <<"-","-">>, <<"/","*">>, <<"*","/">>,
      LIMIT, <<"x">> }

RECURSIVE ExecConcat(_)
ExecConcat(fs) == IF fs = <<>> THEN <<>> ELSE Head(fs) \o ExecConcat(Tail(fs))

ExecInputs ==
    {ExecConcat(fs) : fs \in UNION {[1..n -> ExecFragments] : n \in 0..MaxExecFragments}}

\* The row caps: the default (None) as ask_database uses it, and one given.
ExecRowArgs == {<<>>, <<50>>}

InitExecuted ==
    /\ AgentIdle
    /\ vpc = "call"
    /\ sql_in \in ExecInputs
    /\ verdict = <<FALSE, <<>>>>
    /\ lpc = "idle"
    /\ limit_sql = <<>>
    /\ limit_rows \in ExecRowArgs
    /\ limited = <<>>
    /\ relimited = <<>>
    /\ spc = "idle"
    /\ text_in = <<>>
    /\ sanitized = <<>>
    /\ FormatIdle

\* if not is_safe: return ...; generated_sql = enforce_limit(generated_sql)
LimitValidated ==
    /\ vpc = "return"
    /\ verdict[1]
    /\ lpc = "idle"
    /\ limit_sql' = sql_in
    /\ limited' = enforce_limit(sql_in, MaxRows(limit_rows))
    /\ lpc' = "once"
    /\ UNCHANGED <<limit_rows, relimited, agentVars, validateVars, sanitizeVars, formatVars>>

NextExecuted == ValidateCall \/ LimitValidated

SpecExecuted == InitExecuted /\ [][NextExecuted]_vars

(***************************************************************************)
(* The claims.  The texts below are the ones the claims quote.             *)
(***************************************************************************)

TextSafetyError == <<"S","A","F","E","T","Y"," ","E","R","R","O","R",":"," ">>

TextApiErrorHead == <<"A","P","I"," ","E","R","R","O","R",":"," ","C","o","u","l","d"," ","n","o","t"," ","g","e","n","e","r","a","t","e"," ","S","Q","L"," ","a","f","t","e","r"," ">>

TextApiErrorMid == <<" ","a","t","t","e","m","p","t","s",":"," ">>

TextExecError == <<"S","Q","L"," ","E","X","E","C","U","T","I","O","N"," ","E","R","R","O","R",":"," ">>

TextNoResults == <<"N","o"," ","r","e","s","u","l","t","s"," ","f","o","u","n","d",".">>

TextEmptyQuestion == <<"E","R","R","O","R",":"," ","E","m","p","t","y"," ","q","u","e","s","t","i","o","n"," ","p","r","o","v","i","d","e","d",".">>

TextOnlySelect == <<"O","n","l","y"," ","S","E","L","E","C","T"," ","q","u","e","r","i","e","s"," ","a","r","e"," ","a","l","l","o","w","e","d",".">>

TextKeyName == <<"O","P","E","N","A","I","_","A","P","I","_","K","E","Y">>

ErrorPrefixes ==
    { <<"E","R","R","O","R",":">>,
      <<"S","A","F","E","T","Y"," ","E","R","R","O","R",":">>,
      <<"S","Q","L"," ","E","X","E","C","U","T","I","O","N"," ","E","R","R","O","R",":">>,
      <<"A","P","I"," ","E","R","R","O","R",":">> }

\* p occurs somewhere in s.
Contains(s, p) == Find(s, 1, p) # 0

\* The indices of the SQL-generation calls that returned SQL text.
GeneratedAt == {i \in Calls(trace, "generate") : trace[i].ok}

\* The calls on the data connection.
DbCalls == Calls(trace, "pragma") \cup Calls(trace, "execute")

\* The greatest element of a non-empty set of indices.
Last(S) == CHOOSE i \in S : \A j \in S : j <= i


\* C1: a call reaches the data connection only after validate_sql found the
\* fence-stripped candidate safe; when validate_sql returns (false, reason),
\* ask_database returns exactly "SAFETY ERROR: {reason}" and the connection
\* is never called.
C1_ExecuteOnlyIfSafe ==
    /\ GeneratedAt = {} => DbCalls = {}
    /\ \A g \in GeneratedAt :
          LET v == validate_sql(clean_sql_response(Strip(trace[g].arg))) IN
          /\ DbCalls # {} => v[1]
          /\ (pc = "Done" /\ ~v[1]) =>
                 /\ answer = TextSafetyError \o v[2]
                 /\ DbCalls = {}

\* A call that ended on the validator's veto of a completion that was not a
\* SELECT statement.
C1_Witness ==
    /\ pc = "Done"
    /\ \E i \in Calls(trace, "validate") : ~trace[i].ok
    /\ StartsWith(answer, TextSafetyError)
    /\ Contains(answer, TextOnlySelect)

\* C2: if every SQL-generation call fails, there are exactly max_retries + 1
\* of them, the answer is "API ERROR: Could not generate SQL after
\* {max_retries + 1} attempts: {lastError}" with the error of the final
\* attempt, and nothing is validated, executed or formatted.
C2_AllAttemptsFail ==
    (/\ pc = "Done"
     /\ Calls(trace, "generate") # {}
     /\ GeneratedAt = {})
    => /\ Cardinality(Calls(trace, "generate")) = max_retries + 1
       /\ answer = TextApiErrorHead \o IntStr(max_retries + 1) \o TextApiErrorMid
                   \o trace[Last(Calls(trace, "generate"))].err
       /\ Calls(trace, "validate") = {}
       /\ DbCalls = {}
       /\ Calls(trace, "format") = {}

\* Four failed attempts under the default max_retries, the last one a raise.
C2_Witness ==
    /\ pc = "Done"
    /\ max_retries = MAX_RETRIES
    /\ GeneratedAt = {}
    /\ Cardinality(Calls(trace, "generate")) = 4
    /\ answer = TextApiErrorHead \o <<"4">> \o TextApiErrorMid \o <<"d","o","w","n">>

IsGenerateOrSleep(e) == e.op \in {"generate", "sleep"}

\* The generation calls and the sleeps, in the order they happened.
Attempts == SelectSeq(trace, IsGenerateOrSleep)

\* C3: generation calls and sleeps alternate, starting with a call; only the
\* last call may succeed; the i-th sleep (from 0) lasts initial_backoff * 2^i
\* and follows failed attempt i + 1; after k failures and a success there
\* were k + 1 calls and k sleeps, and after max_retries + 1 failures exactly
\* max_retries sleeps (none after the last failure).
C3_BackoffSchedule ==
    /\ \A i \in 1..Len(Attempts) :
          /\ Attempts[i].op = (IF i % 2 = 1 THEN "generate" ELSE "sleep")
          /\ (Attempts[i].op = "generate" /\ Attempts[i].ok) => i = Len(Attempts)
          /\ Attempts[i].op = "sleep" => ~Attempts[i - 1].ok
    /\ Len(sleeps) = Cardinality(Calls(trace, "sleep"))
    /\ \A i \in 1..Len(sleeps) : sleeps[i] = INITIAL_BACKOFF_SECONDS * (2 ^ (i - 1))
    /\ Len(sleeps) <= max_retries
    /\ GeneratedAt # {} =>
          /\ Cardinality(Calls(trace, "generate")) = Len(sleeps) + 1
          /\ Cardinality(Calls(trace, "generate") \ GeneratedAt) = Len(sleeps)
    /\ (pc = "Done" /\ Calls(trace, "generate") # {} /\ GeneratedAt = {}) =>
          /\ Len(sleeps) = max_retries
          /\ trace[Len(trace)].op = "generate"

\* Three failures, sleeps of 1, 2 and 4 seconds, and a fourth call that succeeds.
C3_Witness ==
    /\ sleeps = <<1, 2, 4>>
    /\ GeneratedAt # {}
    /\ Cardinality(Calls(trace, "generate")) = 4


\* C4: once execution has returned at least one row, exactly one
\* answer-formatting call is made, and if it fails the answer is exactly the
\* deterministic formatter's output for the sanitized question and the rows,
\* computed before the call.
C4_OneFormatCallWithFallback ==
    (pc \in {"Done", "Raised"} /\ rows # <<>>) =>
        /\ Cardinality(Calls(trace, "format")) = 1
        /\ trace[Len(trace)].op = "format"
        /\ ~trace[Len(trace)].ok =>
               answer = format_result_deterministic(sanitize_input(asked),
                                                    ResultData(columns, rows))

\* C5: ask_database never raises to its caller, whatever the completion
\* service and the query execution do.
C5_NeverRaises == pc # "Raised"

\* An answer that comes from the data: the stripped text of the formatting
\* completion, the deterministic formatter's output, or "No results found.".
DataDerived ==
    \/ answer = TextNoResults
    \/ /\ rows # <<>>
       /\ answer = format_result_deterministic(question, result_data)
    \/ /\ trace # <<>>
       /\ trace[Len(trace)].op = "format"
       /\ trace[Len(trace)].ok
       /\ answer = Strip(trace[Len(trace)].arg)

\* C6: the returned answer is never empty, and is a data-derived answer or
\* begins with "ERROR:", "SAFETY ERROR:", "SQL EXECUTION ERROR:" or "API ERROR:".
C6_AnswerNonEmptyAndTagged ==
    pc = "Done" =>
        /\ answer # <<>>
        /\ answer # None
        /\ DataDerived \/ \E p \in ErrorPrefixes : StartsWith(answer, p)

\* C7: an error raised while executing the validated query ends the call with
\* "SQL EXECUTION ERROR: {error}", and an execution that returns no row ends
\* it with "No results found.".
C7_ExecutionOutcomes ==
    pc = "Done" =>
        /\ \A i \in DbCalls : ~trace[i].ok => answer = TextExecError \o trace[i].err
        /\ \A i \in Calls(trace, "execute") :
              (trace[i].ok /\ rows = <<>>) => answer = TextNoResults

\* A query that ran and returned no row.
C7_Witness ==
    /\ pc = "Done"
    /\ \E i \in Calls(trace, "execute") : trace[i].ok
    /\ rows = <<>>
    /\ answer = TextNoResults

\* What ends a call: a rejected candidate, a failed call on the connection,
\* a query that returned no row.
Terminal(i) ==
    \/ trace[i].op = "validate" /\ ~trace[i].ok
    \/ trace[i].op \in {"pragma", "execute"} /\ ~trace[i].ok
    \/ trace[i].op = "execute" /\ trace[i].ok /\ rows = <<>>

\* C8: a validation rejection, an execution error and an empty result set are
\* each the last thing the call does: no completion-service call and no
\* query execution follows, and the call has returned.
C8_TerminalOutcomes ==
    \A i \in 1..Len(trace) : Terminal(i) => (i = Len(trace) /\ pc = "Done")

\* The timeout could not be set: the call ended there, the query never ran.
C8_Witness ==
    /\ pc = "Done"
    /\ trace # <<>>
    /\ trace[Len(trace)].op = "pragma"
    /\ ~trace[Len(trace)].ok
    /\ Calls(trace, "execute") = {}

\* The credential is absent: unset, or set to the empty string.
CredentialAbsent == api_key = None \/ api_key = <<>>

NoExternalCall ==
    /\ Calls(trace, "generate") = {}
    /\ Calls(trace, "format") = {}
    /\ DbCalls = {}

\* C9 as stated: an empty sanitized question yields "ERROR: Empty question
\* provided.", and an absent credential yields an "ERROR:" string that names
\* OPENAI_API_KEY; either way no completion call and no query.
C9_AsStated ==
    pc = "Done" =>
        /\ sanitize_input(asked) = <<>> => (answer = TextEmptyQuestion /\ NoExternalCall)
        /\ api_key = None =>
               /\ StartsWith(answer, <<"E","R","R","O","R",":">>)
               /\ Contains(answer, TextKeyName)
               /\ NoExternalCall

\* C9, amended: the question is checked first, so an absent credential is
\* reported only for a question that is not empty after sanitization.
C9_EarlyErrors ==
    pc = "Done" =>
        /\ sanitize_input(asked) = <<>> => (answer = TextEmptyQuestion /\ NoExternalCall)
        /\ (sanitize_input(asked) # <<>> /\ CredentialAbsent) =>
               /\ StartsWith(answer, <<"E","R","R","O","R",":">>)
               /\ Contains(answer, TextKeyName)
               /\ NoExternalCall

\* A real question asked with the credential set to the empty string.
C9_Witness ==
    /\ pc = "Done"
    /\ sanitize_input(asked) # <<>>
    /\ api_key = <<>>
    /\ Contains(answer, TextKeyName)
    /\ trace = <<>>

\* The length of the run of word characters that starts at position i.
RECURSIVE WordRun(_, _)
WordRun(s, i) == IF i > Len(s) \/ ~IsWordChar(s[i]) THEN 0 ELSE 1 + WordRun(s, i + 1)

\* The first token of the text once comments and surrounding whitespace are
\* gone: a whole word, or a single other character; empty when nothing is left.
FirstToken(sql) ==
    LET s == StripComments(sql) IN
    IF s = <<>> THEN <<>>
    ELSE IF IsWordChar(s[1]) THEN SubSeq(s, 1, WordRun(s, 1))
    ELSE <<s[1]>>

\* C10: every input whose first non-comment token is not SELECT (in any
\* letter case), the empty and the whitespace-only input included, is unsafe
\* with the reason "... Only SELECT queries are allowed.".
C10_NonSelectRejected ==
    (vpc = "return" /\ Upper(FirstToken(sql_in)) # SELECT) =>
        /\ verdict[1] = FALSE
        /\ Contains(verdict[2], TextOnlySelect)

(***************************************************************************)
(* What SQL itself takes for a comment: the claims on validate_sql speak   *)
(* of comments, quoted text and statements, and these definitions read an  *)
(* input the way an SQL scanner does, independently of the stripping that  *)
(* validate_sql performs.                                                  *)
(***************************************************************************)

\* The kind of every character from position i on, for a scanner that is in
\* the given mode at i: "code", "str" (a quoted literal, quotes included) or
\* "comment" (markers included).  A newline ends a line comment and is code;
\* a block comment is an opener with a closer after it.
RECURSIVE SqlLex(_, _, _)
SqlLex(s, i, mode) ==
    IF i > Len(s) THEN <<>>
    ELSE CASE mode = "code" ->
                IF StartsAt(s, i, <<"-","-">>)
                THEN <<"comment", "comment">> \o SqlLex(s, i + 2, "line")
                ELSE IF StartsAt(s, i, <<"/","*">>) /\ Find(s, i + 2, <<"*","/">>) # 0
                THEN <<"comment", "comment">> \o SqlLex(s, i + 2, "block")
                ELSE IF s[i] = "'"
                THEN <<"str">> \o SqlLex(s, i + 1, "str")
                ELSE <<"code">> \o SqlLex(s, i + 1, "code")
           [] mode = "str" ->
                <<"str">> \o SqlLex(s, i + 1, IF s[i] = "'" THEN "code" ELSE "str")
           [] mode = "line" ->
                IF s[i] = "\n"
                THEN <<"code">> \o SqlLex(s, i + 1, "code")
                ELSE <<"comment">> \o SqlLex(s, i + 1, "line")
           [] OTHER ->
                IF StartsAt(s, i, <<"*","/">>)
                THEN <<"comment", "comment">> \o SqlLex(s, i + 2, "code")
                ELSE <<"comment">> \o SqlLex(s, i + 1, "block")

\* The input with every comment blanked out (a comment separates tokens as
\* whitespace does); quoted text stays.
OutsideComments(s) ==
    LET kind == SqlLex(s, 1, "code") IN
    [i \in 1..Len(s) |-> IF kind[i] = "comment" THEN " " ELSE s[i]]

\* The input with comments and quoted literals blanked out: the statements.
SqlCode(s) ==
    LET kind == SqlLex(s, 1, "code") IN
    [i \in 1..Len(s) |-> IF kind[i] = "code" THEN s[i] ELSE " "]

\* The text begins, after whitespace, with the given word as a whole word.
BeginsWithWord(s, word) ==
    LET t == LStrip(s) IN
    /\ StartsWith(Upper(t), word)
    /\ (Len(t) = Len(word) \/ ~IsWordChar(t[Len(word) + 1]))

\* f"'{keyword}'" as the reason quotes it.
Quoted(keyword) == <<"'">> \o keyword \o <<"'">>

TextSqlContains == <<"S","Q","L"," ","c","o","n","t","a","i","n","s">>

TextMultiple == <<"M","u","l","t","i","p","l","e"," ","S","Q","L"," ","s","t","a","t","e","m","e","n","t","s"," ","a","r","e"," ","n","o","t"," ","a","l","l","o","w","e","d",".">>

\* The blocked keywords that are whole words of the text, by position in the list.
WordsIn(s) == {k \in 1..Len(blocked_keywords) : HasWord(s, blocked_keywords[k])}

\* C11: an input that holds a blocked keyword as a whole word outside of
\* comments, in any letter case, is unsafe, and when it is a SELECT the reason
\* names the first such keyword of the list; an input in which no blocked
\* keyword is a whole word outside of comments (a keyword inside a longer
\* identifier, say) is not rejected for a keyword.
C11_KeywordRejected ==
    vpc = "return" =>
        LET hits == WordsIn(OutsideComments(sql_in)) IN
        /\ hits # {} => verdict[1] = FALSE
        /\ (hits # {} /\ BeginsWithWord(OutsideComments(sql_in), SELECT)) =>
               \E k \in hits :
                   /\ \A m \in hits : k <= m
                   /\ Contains(verdict[2], Quoted(blocked_keywords[k]))
        /\ hits = {} => ~Contains(verdict[2], TextSqlContains)

\* C12: SELECT ... ; DROP ... (a statement that begins with SELECT, a
\* semicolon that ends it, then a statement that begins with DROP, whatever
\* quoted text and comments stand in between) is unsafe.
C12_SelectThenDropRejected ==
    (/\ vpc = "return"
     /\ BeginsWithWord(SqlCode(sql_in), SELECT)
     /\ \E i \in 1..Len(sql_in) :
            /\ SqlCode(sql_in)[i] = ";"
            /\ BeginsWithWord(From(SqlCode(sql_in), i + 1), <<"D","R","O","P">>))
    => verdict[1] = FALSE

\* The word occurs in s at position i as a whole word, in any letter case.
WordAt(s, i, word) ==
    /\ StartsAt(Upper(s), i, word)
    /\ (i = 1 \/ ~IsWordChar(s[i - 1]))
    /\ (i + Len(word) > Len(s) \/ ~IsWordChar(s[i + Len(word)]))

\* A blocked keyword is a whole word of s at position i.
KeywordAt(s, i) == \E k \in 1..Len(blocked_keywords) : WordAt(s, i, blocked_keywords[k])

\* Position i of s is a semicolon with something other than whitespace after it.
StatementAfter(s, i) == s[i] = ";" /\ LStrip(From(s, i + 1)) # <<>>

\* C13(a): a blocked keyword that stands only inside comments does not get
\* the input rejected for a keyword, and a semicolon that stands only inside
\* comments does not get it rejected for a second statement.
C13a_CommentedTextIgnored ==
    vpc = "return" =>
        /\ (WordsIn(sql_in) # {} /\ WordsIn(OutsideComments(sql_in)) = {})
               => ~Contains(verdict[2], TextSqlContains)
        /\ (\A i \in 1..Len(sql_in) : OutsideComments(sql_in)[i] # ";")
               => ~Contains(verdict[2], TextMultiple)

\* C13(b): a blocked keyword, or a semicolon with more text after it, that
\* stands after a comment is detected: the input is unsafe.
C13b_TextAfterCommentDetected ==
    vpc = "return" =>
        LET kind == SqlLex(sql_in, 1, "code")
            text == OutsideComments(sql_in) IN
        (\E c \in 1..Len(sql_in) :
            /\ kind[c] = "comment"
            /\ \E i \in (c + 1)..Len(sql_in) :
                   /\ kind[i] = "code"
                   /\ KeywordAt(text, i) \/ StatementAfter(text, i))
        => verdict[1] = FALSE

\* C13: comments are stripped before every other check, so that (a) what
\* stands only inside a comment never causes rejection and (b) what stands
\* after a comment is still detected and rejected.
C13_CommentsStripped == C13a_CommentedTextIgnored /\ C13b_TextAfterCommentDetected

CheckFails(c, cleaned) ==
    CASE c = 1 -> ~StartsWith(Upper(cleaned), SELECT)
      [] c = 2 -> WordsIn(cleaned) # {}
      [] OTHER -> \E i \in 1..Len(cleaned) : StatementAfter(cleaned, i)

CheckReason(c, cleaned) ==
    LET hits == WordsIn(cleaned) IN
    CASE c = 1 -> MSG_ONLY_SELECT
      [] c = 2 -> MsgContains(blocked_keywords[CHOOSE k \in hits : \A m \in hits : k <= m])
      [] OTHER -> MSG_MULTIPLE

\* The number of the first check, in the given order, that fails (0: none);
\* fails[c] tells whether check c fails.
RECURSIVE FirstFailing(_, _)
FirstFailing(order, fails) ==
    IF order = <<>> THEN 0
    ELSE IF fails[Head(order)] THEN Head(order)
    ELSE FirstFailing(Tail(order), fails)

\* The verdict when the checks are made in the given order.
VerdictInOrder(order, fails, cleaned) ==
    LET first == FirstFailing(order, fails) IN
    IF first = 0 THEN <<TRUE, MSG_OK>> ELSE <<FALSE, CheckReason(first, cleaned)>>

\* The six orders of the three checks.
CheckOrders == {o \in [1..3 -> 1..3] : \A i, j \in 1..3 : o[i] = o[j] => i = j}

\* C15: the verdict is (TRUE, "OK") exactly when the stripped text begins
\* with SELECT, holds no blocked keyword as a whole word and no semicolon
\* followed by non-whitespace; otherwise it is FALSE with a non-empty reason
\* other than "OK".  Every order of the three checks gives the same
\* safe/unsafe verdict; the order of the code gives the reported reason.
C15_SafeExactlyWhen ==
    vpc = "return" =>
        \A cleaned \in {StripComments(sql_in)} :
        \A fails \in {[c \in 1..3 |-> CheckFails(c, cleaned)]} :
        LET passes == \A c \in 1..3 : ~fails[c] IN
        /\ (verdict = <<TRUE, MSG_OK>>) <=> passes
        /\ ~passes => (verdict[1] = FALSE /\ verdict[2] # <<>> /\ verdict[2] # MSG_OK)
        /\ \A o \in CheckOrders : VerdictInOrder(o, fails, cleaned)[1] = verdict[1]
        /\ VerdictInOrder(<<1, 2, 3>>, fails, cleaned) = verdict

\* An unsafe input for which another order of the checks reports another reason.
C15_Witness ==
    /\ vpc = "return"
    /\ verdict[1] = FALSE
    /\ \E cleaned \in {StripComments(sql_in)} :
       \E fails \in {[c \in 1..3 |-> CheckFails(c, cleaned)]} :
       \E o \in CheckOrders : VerdictInOrder(o, fails, cleaned)[2] # verdict[2]

\* The positions of s where the word stands as a whole word, in any letter case.
WordPositions(s, word) ==
    LET upper == Upper(s) IN
    {i \in 1..Len(s) :
        /\ StartsAt(upper, i, word)
        /\ (i = 1 \/ ~IsWordChar(s[i - 1]))
        /\ (i + Len(word) > Len(s) \/ ~IsWordChar(s[i + Len(word)]))}

\* " LIMIT {maxRows}" for the argument of the call.
TextLimitClause == <<" ","L","I","M","I","T"," ">> \o IntStr(MaxRows(limit_rows))

\* C16: a query that holds the whole word LIMIT, in any letter case, comes
\* back character for character, whatever maxRows is, and so a second
\* application returns what the first did.
C16_ExistingLimitKept ==
    WordPositions(limit_sql, LIMIT) # {} =>
        /\ lpc \in {"once", "twice"} => limited = limit_sql
        /\ lpc = "twice" => (relimited = limited /\ relimited = limit_sql)

\* A query with a small-letter limit, enforced twice.
C16_Witness ==
    /\ lpc = "twice"
    /\ \E i \in 1..Len(limit_sql) :
           /\ StartsAt(limit_sql, i, <<"l","i","m","i","t">>)
           /\ WordAt(limit_sql, i, LIMIT)
    /\ relimited = limit_sql

\* s without its last character when that is a semicolon.
WithoutOneSemicolon(s) ==
    IF s # <<>> /\ s[Len(s)] = ";" THEN SubSeq(s, 1, Len(s) - 1) ELSE s

C18_AsStated ==
    lpc \in {"once", "twice"} =>
        /\ Cardinality(WordPositions(limited, LIMIT))
               <= Cardinality(WordPositions(limit_sql, LIMIT)) + 1
        /\ ~Contains(limited, <<";", ";">>)

\* C18, amended: the enforcer adds at most one LIMIT, none to a query that
\* has one and none when it runs again on its own output, and its output
\* contains ";;" only if its input does.
C18_NoDoubleAppend ==
    LET before == Cardinality(WordPositions(limit_sql, LIMIT))
        after  == Cardinality(WordPositions(limited, LIMIT)) IN
    /\ lpc \in {"once", "twice"} =>
           /\ after <= before + 1
           /\ before > 0 => after = before
           /\ Contains(limited, <<";", ";">>) => Contains(limit_sql, <<";", ";">>)
    /\ lpc = "twice" =>
           /\ Cardinality(WordPositions(relimited, LIMIT)) = after
           /\ Contains(relimited, <<";", ";">>) => Contains(limit_sql, <<";", ";">>)

\* "SELECT a;" with maxRows 50, enforced twice: one LIMIT 50, no ";;".
C18_Witness ==
    /\ lpc = "twice"
    /\ limit_sql = <<"S","E","L","E","C","T"," ","a",";">>
    /\ limit_rows = <<50>>
    /\ Contains(relimited, <<"L","I","M","I","T"," ","5","0">>)
    /\ Cardinality(WordPositions(relimited, LIMIT)) = 1
    /\ ~Contains(relimited, <<";", ";">>)

\* The ASCII control characters (0x00-0x1F, 0x7F) that the texts here are made of.
AsciiControls == {"NUL", "BEL", "\t", "\n", "VT", "FF", "\r", "ESC", "DEL"}

\* C19: the output of sanitize_input holds no ASCII control character other
\* than newline (0x0A) and tab (0x09).
C19_NoControlCharacters ==
    spc = "return" =>
        \A i \in 1..Len(sanitized) : sanitized[i] \notin (AsciiControls \ {"\n", "\t"})

\* C20: the output of sanitize_input, also for an input longer than the
\* maximum, has no whitespace at its start and none at its end.
C20_NoOuterWhitespace ==
    (spc = "return" /\ sanitized # <<>>) =>
        /\ ~IsSpace(sanitized[1])
        /\ ~IsSpace(sanitized[Len(sanitized)])

\* s begins with p.
IsPrefix(p, s) == Len(p) <= Len(s) /\ SubSeq(s, 1, Len(p)) = p

\* The input with the control characters of the removed class taken out and
\* the whitespace at both ends trimmed.
ControlStrippedTrimmed(s) == Strip(RemoveControls(s))

\* C21: for every input the output of sanitize_input is at most
\* MAX_QUESTION_LENGTH (500) characters long and is a prefix of the
\* control-stripped, trimmed input; None and the empty text give the empty
\* text.
C21_BoundedPrefix ==
    spc = "return" =>
        /\ Len(sanitized) <= MAX_QUESTION_LENGTH
        /\ text_in # None => IsPrefix(sanitized, ControlStrippedTrimmed(text_in))
        /\ text_in \in {None, <<>>} => sanitized = <<>>

\* A text whose control-stripped, trimmed form is longer than the maximum has
\* been cut to exactly the maximum.
C21_Witness ==
    /\ spc = "return"
    /\ text_in # None
    /\ Len(ControlStrippedTrimmed(text_in)) > MAX_QUESTION_LENGTH
    /\ Len(sanitized) = MAX_QUESTION_LENGTH
    /\ sanitized # ControlStrippedTrimmed(text_in)

\* An integer or a floating-point value.
IsNumeric(value) == value.t \in {"int", "float"}

\* The shape of the single-value path: exactly one row with exactly one column.
OneByOne(data) == Len(data) = 1 /\ Len(data[1]) = 1

\* The field the claim describes: money for every numeric value.
NumericAsMoneyPart(key, value) ==
    IF IsNumeric(value)
    THEN key \o <<":"," ","$">> \o Money(Hundredths(value))
    ELSE key \o <<":"," ">> \o PlainStr(value)

NumericAsMoneyLine(row) ==
    Join(<<" ","|"," ">>, [j \in 1..Len(row) |-> NumericAsMoneyPart(row[j].k, row[j].v)])

\* C22: on the multi-row / multi-column path every integer or float field is
\* rendered 'column: $X,XXX.XX' and every other field 'column: value'; the
\* fields of a row are joined with ' | ' in column order and the rows'
\* lines with a newline, none after the last.
C22_NumericFieldsAsMoney ==
    (fpc = "return" /\ ~data_in.none /\ data_in.list # <<>> /\ ~OneByOne(data_in.list)) =>
        formatted = Join(<<"\n">>, [i \in 1..Len(data_in.list) |->
                                        NumericAsMoneyLine(data_in.list[i])])

NotComma(c) == c # ","

IsDigit(c) == \E d \in 1..10 : DigitChars[d] = c

DigitVal(c) == (CHOOSE d \in 1..10 : DigitChars[d] = c) - 1

RECURSIVE DigitsValue(_)
DigitsValue(ds) ==
    IF ds = <<>> THEN 0
    ELSE DigitsValue(SubSeq(ds, 1, Len(ds) - 1)) * 10 + DigitVal(ds[Len(ds)])

\* text is a decimal numeral with exactly two digits after the point (commas
\* allowed before it) whose value is the given number of hundredths.
TwoDecimalsOf(text, hundredths) ==
    LET neg  == text # <<>> /\ text[1] = "-"
        num  == IF neg THEN Tail(text) ELSE text
        n    == Len(num)
        whole == SelectSeq(SubSeq(num, 1, n - 3), NotComma)
    IN /\ n >= 4
       /\ num[n - 2] = "."
       /\ IsDigit(num[n - 1]) /\ IsDigit(num[n])
       /\ whole # <<>>
       /\ \A i \in 1..Len(whole) : IsDigit(whole[i])
       /\ neg <=> hundredths < 0
       /\ DigitsValue(whole) * 100 + DigitVal(num[n - 1]) * 10 + DigitVal(num[n])
              = (IF hundredths < 0 THEN 0 - hundredths ELSE hundredths)

\* C23: format_result_deterministic chooses by shape: 'No results found.' for
\* an empty or absent result set; for one row of one column 'column: $value'
\* with two decimals when the value is an int or a float and 'column: value'
\* otherwise; the one-line-per-row rendering for every other shape.
C23_RenderingByShape ==
    fpc = "return" =>
        LET data == data_in.list IN
        IF data_in.none \/ data = <<>> THEN formatted = TextNoResults
        ELSE IF OneByOne(data)
        THEN LET key == data[1][1].k
                 value == data[1][1].v
             IN IF IsNumeric(value)
                THEN /\ StartsWith(formatted, key \o <<":"," ","$">>)
                     /\ TwoDecimalsOf(From(formatted, Len(key) + 4), Hundredths(value))
                ELSE formatted = key \o <<":"," ">> \o PlainStr(value)
        ELSE formatted = Join(<<"\n">>, [i \in 1..Len(data) |-> RowLine(data[i])])

\* An integer alone in its row has been rendered as money.
C23_WitnessSingleInt ==
    /\ fpc = "return" /\ ~data_in.none
    /\ data_in.list # <<>> /\ OneByOne(data_in.list)
    /\ data_in.list[1][1].v.t = "int"
    /\ Contains(formatted, <<"$","1",",","2","3","4",".","0","0">>)

\* C24: the text ask_database executes, enforce_limit of a candidate that
\* validate_sql found safe, is itself found safe by validate_sql, whatever
\* the row cap.
C24_ExecutedTextIsSafe ==
    (vpc = "return" /\ verdict[1] /\ lpc = "once") => validate_sql(limited)[1]

\* C25: the text ask_database executes holds the whole word LIMIT outside of
\* every comment ('--' to the end of the line, '/* ... */'), also when the
\* validated candidate ends in a comment or mentions LIMIT in a comment only.
C25_EffectiveRowCap ==
    (vpc = "return" /\ verdict[1] /\ lpc = "once") =>
        WordPositions(OutsideComments(limited), LIMIT) # {}

\* The calls and sleeps made so far stay within the budget of max_retries.
WithinBudget ==
    /\ Cardinality(Calls(trace, "generate")) <= max_retries + 1
    /\ Cardinality(Calls(trace, "format")) <= 1
    /\ Cardinality(Calls(trace, "generate")) + Cardinality(Calls(trace, "format"))
          <= max_retries + 2
    /\ Len(sleeps) <= max_retries
    /\ Cardinality(Calls(trace, "sleep")) <= max_retries
    /\ Cardinality(Calls(trace, "execute")) <= 1

\* C26: every call of ask_database with max_retries >= 0 reaches Done with an
\* answer, whatever the completion service and the execution do, having made
\* at most max_retries + 1 generation calls, at most one formatting call (at
\* most max_retries + 2 completion calls in all), at most max_retries sleeps
\* and at most one execution of a generated query.
C26_TerminatesWithinBudget ==
    /\ <>(pc = "Done" /\ answer # None)
    /\ [](WithinBudget)

=============================================================================
